---- MODULE Spec2Model ----
(***************************************************************************)
(* Model of the toolchain registry and the ESP32/Arduino installer of      *)
(* simpleiot-cli (src/simpleiot/cli/buildtool).                            *)
(*                                                                         *)
(* Strings are sequences of one-character strings, so that key derivation  *)
(* (hexlify of the delimiter-joined identity), path joins, expanduser and  *)
(* command-line formatting are computed and not assumed.  Paths use "/" as *)
(* the separator on every host.                                            *)
(***************************************************************************)
EXTENDS Naturals, Integers, Sequences, FiniteSets, TLC

(***************************************************************************)
(* Characters and byte codes                                               *)
(***************************************************************************)
Lower == <<"a","b","c","d","e","f","g","h","i","j","k","l","m",
           "n","o","p","q","r","s","t","u","v","w","x","y","z">>

Digits == <<"0","1","2","3","4","5","6","7","8","9">>

HexDigits == <<"0","1","2","3","4","5","6","7","8","9","a","b","c","d","e","f">>

Range(s) == { s[i] : i \in 1..Len(s) }

IndexOf(s, c) == CHOOSE i \in 1..Len(s) : s[i] = c

\* the code points of the ASCII characters the identities and paths use
OrdTable ==
    [ c \in Range(Lower) \cup Range(Digits) \cup { ":", ".", ",", " ", "-", "_", "/", "~" } |->
        IF c \in Range(Lower) THEN 96 + IndexOf(Lower, c)
        ELSE IF c \in Range(Digits) THEN 47 + IndexOf(Digits, c)
        ELSE CASE c = ":" -> 58
               [] c = "." -> 46
               [] c = "," -> 44
               [] c = " " -> 32
               [] c = "-" -> 45
               [] c = "_" -> 95
               [] c = "/" -> 47
               [] c = "~" -> 126 ]

\* str.encode("utf-8"), one byte per ASCII character
Ord(c) == OrdTable[c]

\* binascii.hexlify: two lowercase hex digits per byte, high nibble first
RECURSIVE hexlify(_)
hexlify(s) ==
    IF s = <<>> THEN <<>>
    ELSE <<HexDigits[(Ord(Head(s)) \div 16) + 1], HexDigits[(Ord(Head(s)) % 16) + 1]>>
         \o hexlify(Tail(s))

(***************************************************************************)
(* Identity strings                                                        *)
(***************************************************************************)
S_espressif == <<"e","s","p","r","e","s","s","i","f">>
S_esp32     == <<"e","s","p","3","2">>
S_arduino   == <<"a","r","d","u","i","n","o">>
S_esp32arloc == <<"e","s","p","3","2","a","r","l","o","c">>

\* LATEST_ARDUINO_ESP32_TOOLCHAIN_VERSION
LatestVersion == <<"3",".","3",".","0">>

OlderVersion == <<"2",".","0",".","9">>

\* version directory of the esptool that "core install esp32:esp32" unpacks
EsptoolVersion == <<"4",".","5",".","1">>

\* the second toolchain sketched at the registration extension point
S_microchip == <<"m","i","c","r","o","c","h","i","p">>
S_imx7      == <<"i","m","x","7">>
S_freertos  == <<"f","r","e","e","r","t","o","s">>
S_v100      == <<"1",".","0",".","0">>
S_imx7frloc == <<"i","m","x","7","f","r","l","o","c">>

DELIM == <<":",":">>

\* Toolchain._make_key: the key the registry looks an installer up by
Toolchain_make_key(manufacturer, processor, opsys, version) ==
    hexlify(manufacturer \o DELIM \o processor \o DELIM \o opsys \o DELIM \o version)

\* mutant of ToolChainBase._make_key: the version is left out of the key
ToolChainBase_make_key_no_version(manufacturer, processor, opsys, version) ==
    hexlify(manufacturer \o DELIM \o processor \o DELIM \o opsys)

\* ToolChainBase._make_key: the key an installer is registered under and names
\* its directory by
ToolChainBase_make_key(manufacturer, processor, opsys, version) ==
    hexlify(manufacturer \o DELIM \o processor \o DELIM \o opsys \o DELIM \o version)

(***************************************************************************)
(* Paths                                                                   *)
(***************************************************************************)
\* DEFAULT_TOOLCHAIN_BASE = "~/.simpleiot/_toolchain"
DEFAULT_TOOLCHAIN_BASE ==
    <<"~","/",".","s","i","m","p","l","e","i","o","t","/","_","t","o","o","l","c","h","a","i","n">>

TmpBase == <<"/","t","m","p","/","t","c">>

Bases == { DEFAULT_TOOLCHAIN_BASE, TmpBase }

S_arduino_cli == <<"a","r","d","u","i","n","o","-","c","l","i">>

S_arduino_cli_exe == S_arduino_cli \o <<".","e","x","e">>

IsPrefix(p, s) == Len(p) <= Len(s) /\ SubSeq(s, 1, Len(p)) = p

\* pathlib's "/" operator: joining the empty name gives the path itself
PathJoin(p, name) == IF name = <<>> THEN p ELSE p \o <<"/">> \o name

\* os.path.expanduser: a leading "~" component is replaced by the home directory
expanduser(p) ==
    IF Len(p) >= 1 /\ p[1] = "~" /\ (Len(p) = 1 \/ p[2] = "/")
    THEN <<"/","h","o","m","e","/","u">> \o SubSeq(p, 2, Len(p))
    ELSE p

\* os.path.exists on the literal path
exists(files, p) == p \in files

\* ToolChainBase._file_exists: exists(expanduser(name)) for a non-empty name
_file_exists(files, name) == name # <<>> /\ exists(files, expanduser(name))

\* os.makedirs
makedirs(files, p) == files \cup {p}

\* shutil.rmtree: the directory and everything below it
rmtree(files, d) == { p \in files : ~(p = d \/ IsPrefix(d \o <<"/">>, p)) }

\* mutant of install_path: "~" is not expanded
install_path_no_expanduser(inst, base) == PathJoin(base, inst.key)

\* ToolChainBase.install_path: the path (the directory is created by the caller
\* of this operator through install_path_fs)
install_path(inst, base) == PathJoin(expanduser(base), inst.key)

install_path_fs(files, inst, base) ==
    IF exists(files, install_path(inst, base)) THEN files
    ELSE makedirs(files, install_path(inst, base))

\* ToolChainBase.exec_path
exec_path(inst, dir) == PathJoin(dir, inst.executable)

(***************************************************************************)
(* State                                                                   *)
(***************************************************************************)
VARIABLES
    host,             \* platform.system() of the machine
    toolchain_list,   \* Toolchain.toolchain_list: key -> installer
    toolchain_alias,  \* Toolchain.toolchain_alias: alias -> alias_dict
    fs,               \* paths that exist on disk (toolchain directories, executables)
    config,           \* arduino-cli.yaml: whether it exists, and its settings
    index,            \* package index refreshed with the ESP32 board-manager URL
    core,             \* esp32:esp32 core (and its bundled esptool) installed
    libs,             \* Arduino libraries installed
    cwd,              \* working directory of the process
    result,           \* outcome of the last call: "none", "ok", "true" or "exit1"
    last,             \* the last call and its arguments
    steps,            \* external steps the last call issued, in order
    invoked,          \* command lines the last call launched, with the cwd at launch
    failures,         \* external steps that have failed so far
    registered,       \* identity tuples registered in this process
    recovery,         \* how far the operator is on the recovery path after a failure
    keyring,          \* the local secure store: username, password and API token
    main_pc,          \* device monitor: where the main thread is
    sigint_handler,   \* the handler in place for SIGINT
    sigint_pending,   \* who raised the SIGINT that is not yet delivered, or "none"
    callback_pc,      \* where the thread that runs _mqtt_callback is
    stop_after_one,   \* utils.stop_after_one, set by subscribe_to_mqtt_topic
    received,         \* messages the callback has been called with
    loop_count        \* loop_count of the receive loop

vars == <<host, toolchain_list, toolchain_alias, fs, config, index, core, libs,
          cwd, result, last, steps, invoked, failures, registered, recovery,
          keyring, main_pc, sigint_handler, sigint_pending, callback_pc,
          stop_after_one, received, loop_count>>

\* the state of the device monitor
monitor_vars == <<main_pc, sigint_handler, sigint_pending, callback_pc, stop_after_one,
                  received, loop_count>>

\* values of platform.system() the dispatch has a branch for
SupportedHosts == { "Darwin", "Windows", "Linux" }

\* ToolchainLocation
Locations == { "LOCAL", "CONTAINER" }

\* most external steps that fail (network down, tool error) in one behaviour
MaxFailures == 1

\* most messages the broker delivers to one monitor, and most rounds of its loop
MaxMessages == 2

MaxLoops == 2

StartDir == <<"/","w">>

NoCall == [op |-> "none"]

\* nothing stored: the empty string stands for None
EmptyKeyring == [username |-> <<>>, password |-> <<>>, token |-> <<>>]

\* no failed install or reset is waiting to be recovered from
NoRecovery == [stage |-> "none"]

EmptyMap == [x \in {} |-> x]

(***************************************************************************)
(* Installers                                                              *)
(***************************************************************************)
\* ToolChainBase.__init__
ToolChainBase_init(cls, alias, manufacturer, processor, opsys, version) ==
    [ cls          |-> cls,
      alias        |-> alias,
      manufacturer |-> manufacturer,
      processor    |-> processor,
      opsys        |-> opsys,
      version      |-> version,
      location     |-> "LOCAL",
      key          |-> ToolChainBase_make_key(manufacturer, processor, opsys, version),
      alias_dict   |-> [ man |-> manufacturer, pro |-> processor, ops |-> opsys,
                         ver |-> version, loc |-> "LOCAL" ],
      executable   |-> <<>> ]

RECURSIVE JoinComma(_)
\* ", ".join(version_list)
JoinComma(list) ==
    IF list = <<>> THEN <<>>
    ELSE IF Len(list) = 1 THEN list[1]
    ELSE list[1] \o <<",", " ">> \o JoinComma(Tail(list))

\* ToolchainESP32Arduino_1_0_0.get_installed_toolchain_version; <<>> stands for None
get_installed_toolchain_version(h, coreInstalled) ==
    JoinComma(IF h \in {"Darwin", "Windows"} /\ coreInstalled
              THEN <<EsptoolVersion>> ELSE <<>>)

\* Python's None, and the outcome of exit(1) in place of a returned value
None == [cls |-> "None"]

Exit == [exit |-> "exit1"]

IsNone(x) == x = None

IsExit(x) == x = Exit

\* mutant of ToolchainESP32Arduino_1_0_0.__init__: a host without a branch gets the
\* POSIX executable name and the constructor returns
ToolchainESP32Arduino_init_any_host(h, coreInstalled, default_version) ==
    LET scanned == get_installed_toolchain_version(h, coreInstalled)
        version_list == IF scanned = <<>> THEN default_version ELSE scanned
        b == ToolChainBase_init("ESP32Arduino", S_esp32arloc, S_espressif, S_esp32,
                                S_arduino, version_list)
    IN  [b EXCEPT !.executable =
            IF h = "Windows" THEN S_arduino_cli_exe ELSE S_arduino_cli]

\* ToolchainESP32Arduino_1_0_0.__init__: Exit on a host without a branch
ToolchainESP32Arduino_init(h, coreInstalled, default_version) ==
    LET scanned == get_installed_toolchain_version(h, coreInstalled)
        version_list == IF scanned = <<>> THEN default_version ELSE scanned
        b == ToolChainBase_init("ESP32Arduino", S_esp32arloc, S_espressif, S_esp32,
                                S_arduino, version_list)
    IN  IF h \in SupportedHosts
        THEN [b EXCEPT !.executable =
                 IF h = "Windows" THEN S_arduino_cli_exe ELSE S_arduino_cli]
        ELSE Exit

\* a plain ToolChainBase instance: the toolchain sketched at the extension point
ToolchainIMX7 ==
    ToolChainBase_init("Base", S_imx7frloc, S_microchip, S_imx7, S_freertos, S_v100)

\* the default version the callers construct the registry with
DefaultVersions == { LatestVersion }

\* identity tuples callers ask for
Tuples ==
    { <<S_espressif, S_esp32, S_arduino, LatestVersion>>,
      <<S_espressif, S_esp32, S_arduino, EsptoolVersion>>,
      <<S_microchip, S_imx7, S_freertos, S_v100>> }

Aliases == { S_esp32arloc, S_imx7frloc }

TupleOf(inst) == <<inst.manufacturer, inst.processor, inst.opsys, inst.version>>

\* the keys of the tuples callers ask for, computed once
KeyTable == [ t \in Tuples |-> Toolchain_make_key(t[1], t[2], t[3], t[4]) ]

\* key = self._make_key(manufacturer, processor, opsys, version) in the registry calls
KeyOf(t) ==
    IF t \in Tuples THEN KeyTable[t] ELSE Toolchain_make_key(t[1], t[2], t[3], t[4])

\* dict.get(key, None)
Lookup(map, k) == IF k \in DOMAIN map THEN map[k] ELSE None

\* mutant of _register: an alias already present keeps its first alias_dict
_register_keeps_first_alias(list, aliases, inst) ==
    [ list    |-> (inst.key :> inst) @@ list,
      aliases |-> aliases @@ (inst.alias :> inst.alias_dict) ]

\* mutant of _register: the installer is filed under its alias, not under its key
_register_under_alias(list, aliases, inst) ==
    [ list    |-> (inst.alias :> inst) @@ list,
      aliases |-> (inst.alias :> inst.alias_dict) @@ aliases ]

\* mutant of _register: a key that is in the list already makes both maps start over
_register_starts_over(list, aliases, inst) ==
    IF inst.key \in DOMAIN list
    THEN [ list |-> (inst.key :> inst), aliases |-> (inst.alias :> inst.alias_dict) ]
    ELSE [ list |-> (inst.key :> inst) @@ list,
           aliases |-> (inst.alias :> inst.alias_dict) @@ aliases ]

\* Toolchain._register
_register(list, aliases, inst) ==
    [ list    |-> (inst.key :> inst) @@ list,
      aliases |-> (inst.alias :> inst.alias_dict) @@ aliases ]

\* mutant of _resolve_alias: an unknown alias falls back to a registered one
_resolve_alias_falls_back(aliases, alias) ==
    IF IsNone(Lookup(aliases, alias))
    THEN IF DOMAIN aliases = {} THEN Exit
         ELSE aliases[CHOOSE a \in DOMAIN aliases : TRUE]
    ELSE aliases[alias]

\* Toolchain._resolve_alias: the alias_dict, or Exit for exit(1)
_resolve_alias(aliases, alias) ==
    IF IsNone(Lookup(aliases, alias)) THEN Exit ELSE aliases[alias]

Init ==
    /\ host \in (SupportedHosts \cup { "FreeBSD" })
    /\ toolchain_list = EmptyMap
    /\ toolchain_alias = EmptyMap
    /\ fs = {}
    /\ config = [exists |-> FALSE, urls |-> FALSE, unsafe |-> FALSE]
    /\ index = FALSE
    /\ core = FALSE
    /\ libs = {}
    /\ cwd = StartDir
    /\ result = "none"
    /\ last = NoCall
    /\ steps = <<>>
    /\ invoked = <<>>
    /\ failures = 0
    /\ registered = {}
    /\ recovery = NoRecovery
    /\ keyring = EmptyKeyring
    /\ main_pc = "none"
    /\ sigint_handler = "default"
    /\ sigint_pending = "none"
    /\ callback_pc = "idle"
    /\ stop_after_one = FALSE
    /\ received = 0
    /\ loop_count = 0

\* the process has not ended: neither exit(1) nor a command that ran to its end
Running == result \notin {"exit0", "exit1"}

\* exit(1) ends the process: its class-level maps and working directory are gone,
\* the disk and the tool state stay
Exited ==
    /\ toolchain_list' = EmptyMap
    /\ toolchain_alias' = EmptyMap
    /\ registered' = {}
    /\ cwd' = StartDir
    /\ result' = "exit1"

\* the process has ended (normally or by exit(1)) and the next command starts a new
\* one: the class-level maps are empty again, the disk and the tool state stay
NewProcess ==
    /\ result # "none"
    /\ toolchain_list' = EmptyMap
    /\ toolchain_alias' = EmptyMap
    /\ cwd' = StartDir
    /\ result' = "none"
    /\ last' = NoCall
    /\ steps' = <<>>
    /\ invoked' = <<>>
    /\ registered' = {}
    /\ UNCHANGED <<host, keyring, monitor_vars, fs, config, index, core, libs, failures, recovery>>

\* Toolchain.__init__(default_arduino_version)
ToolchainInit(default_version) ==
    /\ Running
    /\ LET inst == ToolchainESP32Arduino_init(host, core, default_version)
       IN  IF IsExit(inst)
           THEN /\ Exited
                /\ last' = [op |-> "toolchain_init"]
           ELSE LET r == _register(toolchain_list, toolchain_alias, inst)
                IN  /\ toolchain_list' = r.list
                    /\ toolchain_alias' = r.aliases
                    /\ last' = [op |-> "register", alias |-> inst.alias,
                                tup |-> TupleOf(inst),
                                again |-> Lookup(toolchain_alias, inst.alias)
                                            = inst.alias_dict]
                    /\ registered' = registered \cup {TupleOf(inst)}
                    /\ result' = "ok"
                    /\ UNCHANGED cwd
    /\ steps' = <<>>
    /\ invoked' = <<>>
    /\ UNCHANGED <<host, keyring, monitor_vars, fs, config, index, core, libs, failures, recovery>>

\* Toolchain._register(cls) for a further toolchain, at the place Toolchain.__init__
\* keeps for it: after the ESP32/Arduino installer has been registered
RegisterOther ==
    /\ Running
    /\ S_esp32arloc \in DOMAIN toolchain_alias
    /\ LET r == _register(toolchain_list, toolchain_alias, ToolchainIMX7)
       IN  /\ toolchain_list' = r.list
           /\ toolchain_alias' = r.aliases
    /\ last' = [op |-> "register", alias |-> ToolchainIMX7.alias,
                tup |-> TupleOf(ToolchainIMX7),
                again |-> Lookup(toolchain_alias, ToolchainIMX7.alias)
                            = ToolchainIMX7.alias_dict]
    /\ registered' = registered \cup {TupleOf(ToolchainIMX7)}
    /\ result' = "ok"
    /\ steps' = <<>>
    /\ invoked' = <<>>
    /\ UNCHANGED <<host, keyring, monitor_vars, fs, config, index, core, libs, cwd, failures, recovery>>

(***************************************************************************)
(* install                                                                 *)
(***************************************************************************)
\* what a call leaves behind: the installer object, the disk, the external steps
\* it issued, and whether it ended in exit(1)
Out(inst, files, st, ex) == [inst |-> inst, fs |-> files, steps |-> st, exit |-> ex]

\* mutant of install_mac: the script runs whether or not the executable is there
install_mac_overwrites(inst, files, dir, location, ok) ==
    LET self == [inst EXCEPT !.location = location]
        install_exe == exec_path(inst, dir)
    IN  IF location = "LOCAL"
        THEN Out(self, IF ok THEN files \cup {install_exe} ELSE files,
                 <<"install_script">>, FALSE)
        ELSE Out(self, files, <<>>, TRUE)

\* ToolchainESP32Arduino_1_0_0.install_mac: the install script, refused when the
\* executable is already there
install_mac(inst, files, dir, location, ok) ==
    LET self == [inst EXCEPT !.location = location]
        install_exe == exec_path(inst, dir)
    IN  IF location = "LOCAL"
        THEN IF _file_exists(files, install_exe)
             THEN Out(self, files, <<>>, TRUE)
             ELSE Out(self, IF ok THEN files \cup {install_exe} ELSE files,
                      <<"install_script">>, FALSE)
        ELSE Out(self, files, <<>>, TRUE)

\* mutant of install_windows: an executable already in place is refused
install_windows_refuses(inst, files, dir, location, ok) ==
    LET self == [inst EXCEPT !.location = location]
        install_exe == exec_path(inst, dir)
    IN  IF location = "LOCAL" /\ ~exists(files, install_exe)
        THEN Out(self,
                 IF ok THEN files \cup {install_exe} ELSE files,
                 <<"download">> \o (IF ok THEN <<"expand_archive", "move_exe">> ELSE <<>>),
                 FALSE)
        ELSE Out(self, files, <<>>, TRUE)

\* ToolchainESP32Arduino_1_0_0.install_windows: one "&"-chained command line:
\* remove the old executable, download, expand, move into place
install_windows(inst, files, dir, location, ok) ==
    LET self == [inst EXCEPT !.location = location]
        install_exe == exec_path(inst, dir)
        removed == files \ {install_exe}
    IN  IF location = "LOCAL"
        THEN Out(self,
                 IF ok THEN removed \cup {install_exe} ELSE removed,
                 (IF exists(files, install_exe) THEN <<"remove_exe">> ELSE <<>>)
                   \o <<"download">>
                   \o (IF ok THEN <<"expand_archive", "move_exe">> ELSE <<>>),
                 FALSE)
        ELSE Out(self, files, <<>>, TRUE)

\* ToolChainBase.install_unix (also install_mac / install_windows of a plain
\* ToolChainBase): called with one argument too many, it raises
install_base(inst, files, dir, location, ok) == Out(inst, files, <<>>, TRUE)

\* the outcome of a platform method, with the name of the method that was called
Called(m, out) == [method |-> m] @@ out

\* the platform method a call went to; "none" when none was called
MethodOf(out) == IF "method" \in DOMAIN out THEN out.method ELSE "none"

\* "ERROR: operating system not supported": printed, and the caller goes on
not_supported(inst, files) == Called("none", Out(inst, files, <<>>, FALSE))

\* mutant of the dispatch in Toolchain.install: the branch is taken on the `opsys`
\* argument (the target OS of the tuple) instead of platform.system()
install_dispatch_on_target_os(h, inst, files, dir, location, ok) ==
    IF inst.opsys = <<"D","a","r","w","i","n">>
    THEN Called("install_mac", install_mac(inst, files, dir, location, ok))
    ELSE IF inst.opsys = <<"W","i","n","d","o","w","s">>
    THEN Called("install_windows", install_windows(inst, files, dir, location, ok))
    ELSE IF inst.opsys = <<"L","i","n","u","x">>
    THEN Called("install_unix", install_base(inst, files, dir, location, ok))
    ELSE not_supported(inst, files)

\* the platform method Toolchain.install picks from platform.system()
install_dispatch(h, inst, files, dir, location, ok) ==
    IF h = "Darwin"
    THEN Called("install_mac",
                IF inst.cls = "ESP32Arduino"
                THEN install_mac(inst, files, dir, location, ok)
                ELSE install_base(inst, files, dir, location, ok))
    ELSE IF h = "Windows"
    THEN Called("install_windows",
                IF inst.cls = "ESP32Arduino"
                THEN install_windows(inst, files, dir, location, ok)
                ELSE install_base(inst, files, dir, location, ok))
    ELSE IF h = "Linux"
    THEN Called("install_unix", install_base(inst, files, dir, location, ok))
    ELSE not_supported(inst, files)

\* mutant of Toolchain.install: the directory is made before the lookup
install_mkdir_before_lookup(list, files, h, base, t, location, ok) ==
    LET installer == Lookup(list, KeyOf(t))
        made == makedirs(files, PathJoin(expanduser(base), KeyOf(t)))
    IN  IF IsNone(installer)
        THEN Out(None, made, <<>>, TRUE)
        ELSE install_dispatch(h, installer, made, install_path(installer, base),
                              location, ok)

\* Toolchain.install; None as the installer when the key is not registered
install(list, files, h, base, t, location, ok) ==
    LET installer == Lookup(list, KeyOf(t))
    IN  IF IsNone(installer)
        THEN Out(None, files, <<>>, TRUE)
        ELSE install_dispatch(h, installer, install_path_fs(files, installer, base),
                              install_path(installer, base), location, ok)

\* steps whose outcome depends on the network or the remote side
NetworkSteps == { "install_script", "download" }

Failed(st, ok) == IF ~ok /\ (Range(st) \cap NetworkSteps) # {} THEN 1 ELSE 0

\* the effect of a call on the registry, the disk and the call record
Finish(out, call, res) ==
    /\ fs' = out.fs
    /\ steps' = out.steps
    /\ last' = [method |-> MethodOf(out)] @@ call
    /\ IF out.exit THEN Exited
       ELSE /\ toolchain_list' = [toolchain_list EXCEPT ![out.inst.key] = out.inst]
            /\ result' = res
            /\ UNCHANGED <<toolchain_alias, cwd, registered>>

\* the recovery path of the operator: an install or reset in which a step failed,
\* then uninstall, then install, each with the same base, tuple and location,
\* in the same process or in later ones
Recovery(stage, base, t, location) ==
    [stage |-> stage, base |-> base, tup |-> t, loc |-> location]

\* the stage the recovery path is at after a call of `op` with these arguments
NextRecovery(op, failed, base, t, location) ==
    IF op \in {"install", "reset"} /\ failed
    THEN Recovery("failed", base, t, location)
    ELSE IF op = "uninstall" /\ recovery = Recovery("failed", base, t, location)
    THEN Recovery("uninstalled", base, t, location)
    ELSE IF op = "install" /\ recovery = Recovery("uninstalled", base, t, location)
    THEN Recovery("retried", base, t, location)
    ELSE NoRecovery

Install(base, t, location) ==
    /\ Running
    /\ \E ok \in BOOLEAN :
         LET out == install(toolchain_list, fs, host, base, t, location, ok)
         IN  /\ ok \/ (failures < MaxFailures /\ Failed(out.steps, ok) = 1)
             /\ failures' = failures + Failed(out.steps, ok)
             /\ Finish(out, [op |-> "install", base |-> base, tup |-> t,
                             loc |-> location], "ok")
             /\ recovery' = NextRecovery("install", Failed(out.steps, ok) = 1,
                                         base, t, location)
    /\ invoked' = <<>>
    /\ UNCHANGED <<host, keyring, monitor_vars, config, index, core, libs>>

\* Toolchain.install_alias
InstallAlias(base, alias) ==
    /\ Running
    /\ LET params == _resolve_alias(toolchain_alias, alias)
           call == [op |-> "install_alias", base |-> base, alias |-> alias]
       IN  IF IsExit(params)
           THEN /\ Finish(Out(None, fs, <<>>, TRUE), call, "ok")
                /\ UNCHANGED failures
           ELSE \E ok \in BOOLEAN :
                  LET out == install(toolchain_list, fs, host, base,
                                     <<params.man, params.pro, params.ops, params.ver>>,
                                     params.loc, ok)
                  IN  /\ ok \/ (failures < MaxFailures /\ Failed(out.steps, ok) = 1)
                      /\ failures' = failures + Failed(out.steps, ok)
                      /\ Finish(out, call, "ok")
    /\ recovery' = NoRecovery
    /\ invoked' = <<>>
    /\ UNCHANGED <<host, keyring, monitor_vars, config, index, core, libs>>

(***************************************************************************)
(* uninstall                                                               *)
(***************************************************************************)
\* mutant of uninstall_mac: the location is not looked at
uninstall_mac_any_location(inst, files, dir, location) ==
    IF _file_exists(files, exec_path(inst, dir))
    THEN Out(inst, rmtree(files, dir), <<"rmtree">>, FALSE)
    ELSE Out(inst, files, <<>>, FALSE)

\* ToolchainESP32Arduino_1_0_0.uninstall_mac
uninstall_mac(inst, files, dir, location) ==
    IF location = "LOCAL"
    THEN IF _file_exists(files, exec_path(inst, dir))
         THEN Out(inst, rmtree(files, dir), <<"rmtree">>, FALSE)
         ELSE Out(inst, files, <<>>, FALSE)
    ELSE Out(inst, files, <<>>, TRUE)

\* ToolchainESP32Arduino_1_0_0.uninstall_windows: Remove-Item of the executable,
\* then of the directory (without -Recurse: it goes only when nothing is left in it)
uninstall_windows(inst, files, dir, location) ==
    LET install_exe == exec_path(inst, dir)
        noexe == files \ {install_exe}
        empty == \A p \in noexe : ~IsPrefix(dir \o <<"/">>, p)
    IN  IF location = "LOCAL"
        THEN Out(inst,
                 IF empty THEN noexe \ {dir} ELSE noexe,
                 (IF exists(files, install_exe) THEN <<"remove_exe">> ELSE <<>>)
                   \o (IF exists(files, dir) /\ empty THEN <<"remove_dir">> ELSE <<>>),
                 FALSE)
        ELSE Out(inst, files, <<>>, TRUE)

\* ToolChainBase.uninstall_unix (also uninstall_mac / uninstall_windows of a plain
\* ToolChainBase): called with one argument too many, it raises
uninstall_base(inst, files, dir, location) == Out(inst, files, <<>>, TRUE)

\* the platform method Toolchain.uninstall picks from platform.system()
uninstall_dispatch(h, inst, files, dir, location) ==
    IF h = "Darwin"
    THEN Called("uninstall_mac",
                IF inst.cls = "ESP32Arduino"
                THEN uninstall_mac(inst, files, dir, location)
                ELSE uninstall_base(inst, files, dir, location))
    ELSE IF h = "Windows"
    THEN Called("uninstall_windows",
                IF inst.cls = "ESP32Arduino"
                THEN uninstall_windows(inst, files, dir, location)
                ELSE uninstall_base(inst, files, dir, location))
    ELSE IF h = "Linux"
    THEN Called("uninstall_unix", uninstall_base(inst, files, dir, location))
    ELSE not_supported(inst, files)

\* "Also remove the directory in .simpleiot if it still exists": reached only when
\* the platform method returned
uninstall_cleanup(out, dir) ==
    IF out.exit THEN out
    ELSE IF exists(out.fs, dir)
    THEN [out EXCEPT !.fs = rmtree(out.fs, dir),
                     !.steps = out.steps \o <<"clean_remnant">>]
    ELSE out

\* Toolchain.uninstall
uninstall(list, files, h, base, t, location) ==
    LET installer == Lookup(list, KeyOf(t))
    IN  IF IsNone(installer)
        THEN Out(None, files, <<>>, TRUE)
        ELSE uninstall_cleanup(
                 uninstall_dispatch(h, installer, install_path_fs(files, installer, base),
                                    install_path(installer, base), location),
                 install_path(installer, base))

Uninstall(base, t, location) ==
    /\ Running
    /\ Finish(uninstall(toolchain_list, fs, host, base, t, location),
              [op |-> "uninstall", base |-> base, tup |-> t, loc |-> location], "ok")
    /\ recovery' = NextRecovery("uninstall", FALSE, base, t, location)
    /\ invoked' = <<>>
    /\ UNCHANGED <<host, keyring, monitor_vars, config, index, core, libs, failures>>

(***************************************************************************)
(* reset                                                                   *)
(***************************************************************************)
\* the libraries reset installs by name, then those it installs by --git-url
LibsByName == <<"ArduinoJson", "ArduinoMqttClient", "FastLED", "TinyGPSPlus-ESP32">>

LibsByGitUrl == <<"M5Core2", "UNIT_ENV", "UNIT_ENCODER", "arduino-aws-greengrass-iot",
                  "simpleiot-arduino">>

\* the commands after the optional "config init", in the order they are issued
ConfigureSteps ==
    <<"set_board_manager_urls", "set_enable_unsafe_install", "core_update_index",
      "core_install_esp32">> \o LibsByName \o LibsByGitUrl

\* the state arduino-cli keeps: its config file, package index, cores and libraries
Tool(cfg, idx, cr, lb) == [config |-> cfg, index |-> idx, core |-> cr, libs |-> lb]

\* what arduino-cli does for one command; a command in `failing` has no effect
ApplyStep(ts, cmd, failing) ==
    IF cmd \in failing THEN ts
    ELSE IF cmd = "config_init"
    THEN [ts EXCEPT !.config = [exists |-> TRUE, urls |-> FALSE, unsafe |-> FALSE]]
    ELSE IF cmd = "set_board_manager_urls"
    THEN [ts EXCEPT !.config = [@ EXCEPT !.exists = TRUE, !.urls = TRUE]]
    ELSE IF cmd = "set_enable_unsafe_install"
    THEN [ts EXCEPT !.config = [@ EXCEPT !.exists = TRUE, !.unsafe = TRUE]]
    ELSE IF cmd = "core_update_index"
    THEN [ts EXCEPT !.index = @ \/ ts.config.urls]
    ELSE IF cmd = "core_install_esp32"
    THEN [ts EXCEPT !.core = @ \/ ts.index]
    ELSE IF cmd \in Range(LibsByGitUrl)
    THEN [ts EXCEPT !.libs = IF ts.config.unsafe THEN @ \cup {cmd} ELSE @]
    ELSE [ts EXCEPT !.libs = @ \cup {cmd}]

RECURSIVE RunSteps(_, _, _)
\* self._exec(cmd) for each command in turn; no outcome is looked at
RunSteps(ts, cmds, failing) ==
    IF cmds = <<>> THEN ts
    ELSE RunSteps(ApplyStep(ts, Head(cmds), failing), Tail(cmds), failing)

\* what a reset call leaves behind
ResetOut(files, ts, st, ex) == [fs |-> files, tool |-> ts, steps |-> st, exit |-> ex]

\* mutant of reset_mac: an existing config file is refused, as in
\* reset_mac_with_brew
reset_mac_refuses_config(inst, files, ts, base, location, failing) ==
    LET files1 == install_path_fs(files, inst, base)
        install_exe == exec_path(inst, install_path(inst, base))
        cmds == ConfigureSteps
    IN  IF location = "LOCAL" /\ exists(files1, install_exe) /\ ~ts.config.exists
        THEN ResetOut(files1, RunSteps(ts, cmds, failing), cmds, FALSE)
        ELSE ResetOut(files, ts, <<>>, TRUE)

\* mutant of reset_mac: the sequence of commands ends at the first one that fails
reset_mac_stops_at_failure(inst, files, ts, base, location, failing) ==
    LET files1 == install_path_fs(files, inst, base)
        install_exe == exec_path(inst, install_path(inst, base))
        cmds == (IF ts.config.exists THEN <<>> ELSE <<"config_init">>) \o ConfigureSteps
        bad == { i \in 1..Len(cmds) : cmds[i] \in failing }
        issued == IF bad = {} THEN cmds
                  ELSE SubSeq(cmds, 1, CHOOSE i \in bad : \A j \in bad : i <= j)
    IN  IF location = "LOCAL"
        THEN IF exists(files1, install_exe)
             THEN ResetOut(files1, RunSteps(ts, issued, failing), issued, FALSE)
             ELSE ResetOut(files1, ts, <<>>, TRUE)
        ELSE ResetOut(files, ts, <<>>, TRUE)

\* ToolchainESP32Arduino_1_0_0.reset_mac(base, ...): it derives the install
\* directory itself and exits when the executable is not in it
reset_mac(inst, files, ts, base, location, failing) ==
    LET files1 == install_path_fs(files, inst, base)
        install_exe == exec_path(inst, install_path(inst, base))
        cmds == (IF ts.config.exists THEN <<>> ELSE <<"config_init">>) \o ConfigureSteps
    IN  IF location = "LOCAL"
        THEN IF exists(files1, install_exe)
             THEN ResetOut(files1, RunSteps(ts, cmds, failing), cmds, FALSE)
             ELSE ResetOut(files1, ts, <<>>, TRUE)
        ELSE ResetOut(files, ts, <<>>, TRUE)

\* ToolchainESP32Arduino_1_0_0.reset_windows(Path(base) / key, ...): the existence
\* test expands "~", the command lines carry the path as given, and the shell runs
\* the executable only if that literal path names it
reset_windows(inst, files, ts, base, location, failing) ==
    LET install_exe == exec_path(inst, PathJoin(base, inst.key))
        cmds == <<"config_init">> \o ConfigureSteps
    IN  IF location = "LOCAL"
        THEN IF _file_exists(files, install_exe)
             THEN ResetOut(files,
                           IF exists(files, install_exe)
                           THEN RunSteps(ts, cmds, failing) ELSE ts,
                           cmds, FALSE)
             ELSE ResetOut(files, ts, <<>>, FALSE)
        ELSE ResetOut(files, ts, <<>>, TRUE)

\* ToolChainBase.reset_unix (also reset_mac / reset_windows of a plain
\* ToolChainBase): called with one argument too many, it raises
reset_base(inst, files, ts, base, location, failing) == ResetOut(files, ts, <<>>, TRUE)

\* the platform method Toolchain.reset picks from platform.system()
reset_dispatch(h, inst, files, ts, base, location, failing) ==
    IF h = "Darwin"
    THEN Called("reset_mac",
                IF inst.cls = "ESP32Arduino"
                THEN reset_mac(inst, files, ts, base, location, failing)
                ELSE reset_base(inst, files, ts, base, location, failing))
    ELSE IF h = "Windows"
    THEN Called("reset_windows",
                IF inst.cls = "ESP32Arduino"
                THEN reset_windows(inst, files, ts, base, location, failing)
                ELSE reset_base(inst, files, ts, base, location, failing))
    ELSE IF h = "Linux"
    THEN Called("reset_unix", reset_base(inst, files, ts, base, location, failing))
    ELSE Called("none", ResetOut(files, ts, <<>>, FALSE))

\* Toolchain.reset
reset(list, files, ts, h, base, t, location, failing) ==
    LET installer == Lookup(list, KeyOf(t))
    IN  IF IsNone(installer) THEN ResetOut(files, ts, <<>>, TRUE)
        ELSE reset_dispatch(h, installer, files, ts, base, location, failing)

\* every configuration key set, the index fresh, the core and all libraries in
Configured ==
    /\ config = [exists |-> TRUE, urls |-> TRUE, unsafe |-> TRUE]
    /\ index
    /\ core
    /\ libs = Range(LibsByName) \cup Range(LibsByGitUrl)

\* this reset follows a reset with the same arguments that returned and left the
\* tool configured
Repeats(base, t, location) ==
    /\ last.op = "reset"
    /\ result = "ok"
    /\ last.base = base /\ last.tup = t /\ last.loc = location
    /\ steps # <<>>
    /\ Configured

\* the sets of steps that may fail in one call
FailingSets == { f \in SUBSET { "core_install_esp32", Head(LibsByName) } : Cardinality(f) <= MaxFailures }

Reset(base, t, location) ==
    /\ Running
    /\ \E failing \in FailingSets :
         LET out == reset(toolchain_list, fs, Tool(config, index, core, libs), host,
                          base, t, location, failing)
             n == Cardinality(failing)
         IN  /\ failures + n <= MaxFailures
             /\ failing \subseteq Range(out.steps)
             /\ failures' = failures + n
             /\ fs' = out.fs
             /\ config' = out.tool.config
             /\ index' = out.tool.index
             /\ core' = out.tool.core
             /\ libs' = out.tool.libs
             /\ steps' = out.steps
             /\ IF out.exit THEN Exited
                ELSE /\ result' = "ok"
                     /\ UNCHANGED <<toolchain_list, toolchain_alias, cwd, registered>>
    /\ last' = [op |-> "reset", base |-> base, tup |-> t, loc |-> location,
                nth |-> IF Repeats(base, t, location) THEN 2 ELSE 1,
                method |-> MethodOf(reset(toolchain_list, fs, Tool(config, index, core,
                                                                   libs),
                                          host, base, t, location, {}))]
    /\ recovery' = NextRecovery("reset", failures' > failures /\ result' = "ok",
                                base, t, location)
    /\ invoked' = <<>>
    /\ UNCHANGED <<host, keyring, monitor_vars>>

(***************************************************************************)
(* build, flash, build_and_flash                                           *)
(***************************************************************************)
\* f"{exec} {command}"
full_command(exec, command) == exec \o <<" ">> \o command

Commands == { <<"c","o","m","p","i","l","e"," ","-","v"," ","/","s","r","c","/","s","k">>,
              <<"u","p","l","o","a","d">> }

Dirpaths == { <<"/","s","r","c","/","s","k">> }

\* exit statuses of the external tool
Statuses == { 0, 1 }

\* ToolChainBase._exec: subprocess.run(command, shell=True, capture_output=True);
\* the command is launched in the current directory and its status is returned in
\* an object no caller looks at
_exec(cmd, dir, status) == <<[cmd |-> cmd, cwd |-> dir, status |-> status]>>

\* ToolChainBase._invoke_unbuffered: `sys` is not imported in toolchainbase.py, so
\* the first line of the try block raises NameError, which `except Exception: pass`
\* swallows: no process is launched
_invoke_unbuffered(cmd, dir) == <<>>

\* what a build call leaves behind: the launched command lines with the working
\* directory at launch, the disk, the working directory, the returned value, and
\* whether it ended in exit(1)
Launch(files, dir, inv, ret, ex) ==
    [ fs |-> files, cwd |-> dir, exit |-> ex, ret |-> ret,
      invoked |-> IF ex THEN <<>> ELSE inv ]

\* ToolchainESP32Arduino_1_0_0.build (a plain ToolChainBase raises NotImplementedError)
installer_build(inst, files, dir, base, dirpath, command, status) ==
    IF inst.cls = "ESP32Arduino"
    THEN Launch(files, dirpath,
                _invoke_unbuffered(full_command(exec_path(inst, base), command),
                                   dirpath),
                TRUE, FALSE)
    ELSE Launch(files, dir, <<>>, FALSE, TRUE)

\* ToolchainESP32Arduino_1_0_0.flash: os.chdir(dirpath), then the command with
\* exec_path(base) in front
installer_flash(inst, files, dir, base, dirpath, command, status) ==
    IF inst.cls = "ESP32Arduino"
    THEN Launch(files, dirpath,
                _invoke_unbuffered(full_command(exec_path(inst, base), command),
                                   dirpath),
                TRUE, FALSE)
    ELSE Launch(files, dir, <<>>, FALSE, TRUE)

\* mutant of build_and_flash: the status of the command decides the returned value
installer_build_and_flash_status(inst, files, dir, base, dirpath, command, status) ==
    IF inst.cls = "ESP32Arduino"
    THEN Launch(install_path_fs(files, inst, base), dir,
                _exec(full_command(exec_path(inst, install_path(inst, base)), command),
                      dir, status),
                status = 0, FALSE)
    ELSE Launch(files, dir, <<>>, FALSE, TRUE)

\* ToolchainESP32Arduino_1_0_0.build_and_flash: no chdir, the command runs in the
\* directory the process is in, with exec_path(install_path(base)) in front
installer_build_and_flash(inst, files, dir, base, dirpath, command, status) ==
    IF inst.cls = "ESP32Arduino"
    THEN Launch(install_path_fs(files, inst, base), dir,
                _exec(full_command(exec_path(inst, install_path(inst, base)), command),
                      dir, status),
                TRUE, FALSE)
    ELSE Launch(files, dir, <<>>, FALSE, TRUE)

\* Toolchain.build
build(list, files, dir, base, t, dirpath, command, status) ==
    LET installer == Lookup(list, KeyOf(t))
    IN  IF IsNone(installer) THEN Launch(files, dir, <<>>, FALSE, TRUE)
        ELSE installer_build(installer, files, dir, base, dirpath, command, status)

\* Toolchain.build_and_flash
build_and_flash(list, files, dir, base, t, dirpath, command, status) ==
    LET installer == Lookup(list, KeyOf(t))
    IN  IF IsNone(installer) THEN Launch(files, dir, <<>>, FALSE, TRUE)
        ELSE installer_build_and_flash(installer, files, dir, base, dirpath, command,
                                       status)

\* Python's str() of the returned bool, lower-cased
Returned(ret) == IF ret THEN "true" ELSE "false"

FinishLaunch(out, call) ==
    /\ fs' = out.fs
    /\ invoked' = out.invoked
    /\ last' = call
    /\ steps' = <<>>
    /\ IF out.exit THEN Exited
       ELSE /\ cwd' = out.cwd
            /\ result' = Returned(out.ret)
            /\ UNCHANGED <<toolchain_list, toolchain_alias, registered>>
    /\ UNCHANGED <<host, keyring, monitor_vars, config, index, core, libs, failures, recovery>>

Build(base, t, dirpath, command) ==
    /\ Running
    /\ \E status \in Statuses :
         FinishLaunch(build(toolchain_list, fs, cwd, base, t, dirpath, command, status),
                      [op |-> "build", base |-> base, tup |-> t, dirpath |-> dirpath,
                       command |-> command, status |-> status])

\* installer.flash called on a registered installer (the registry has no flash)
Flash(base, t, dirpath, command) ==
    /\ Running
    /\ KeyOf(t) \in DOMAIN toolchain_list
    /\ \E status \in Statuses :
         FinishLaunch(installer_flash(toolchain_list[KeyOf(t)], fs, cwd, base, dirpath,
                                      command, status),
                      [op |-> "flash", base |-> base, tup |-> t, dirpath |-> dirpath,
                       command |-> command, status |-> status])

BuildAndFlash(base, t, dirpath, command) ==
    /\ Running
    /\ \E status \in Statuses :
         FinishLaunch(build_and_flash(toolchain_list, fs, cwd, base, t, dirpath, command,
                                      status),
                      [op |-> "build_and_flash", base |-> base, tup |-> t,
                       dirpath |-> dirpath, command |-> command, status |-> status])

(***************************************************************************)
(* The `toolchain` command group (cli/toolchain.py).  The handlers act on   *)
(* the module's toolchain_class, the registry object of the process.       *)
(***************************************************************************)
\* the values click.Choice lets through for --location
LocationChoices == { "local", "local_container", "cloud_container", "cloud_server" }

\* ToolchainLocation(value): the member with that value, "ValueError" when the
\* enumeration has none
ToolchainLocation(value) ==
    IF value = "local" THEN "LOCAL"
    ELSE IF value = "container" THEN "CONTAINER"
    ELSE IF value = "cloud_container" THEN "CLOUD_CONTAINER"
    ELSE IF value = "cloud_service" THEN "CLOUD_SERVICE"
    ELSE "ValueError"

\* what a handler leaves behind: the disk, the tool state, the steps issued, the
\* exit code of the command, and how it failed: "none", "exception" (caught by the
\* handler's `except Exception`, printed as "ERROR: ...") or "exit" (exit(1) below)
CliOut(files, ts, st, code, error) ==
    [fs |-> files, tool |-> ts, steps |-> st, code |-> code, error |-> error]

\* the handler's `except Exception as e: print(f"ERROR: {str(e)}")`: the handler
\* returns and the command ends with exit code 0
caught(files, ts) == CliOut(files, ts, <<>>, 0, "exception")

\* the reset call that ends the install handler
cli_install_reset(list, files, ts, st, h, base, t, location, failing) ==
    LET r == reset(list, files, ts, h, base, t, location, failing)
    IN  IF r.exit THEN CliOut(r.fs, r.tool, st \o r.steps, 1, "exit")
        ELSE CliOut(r.fs, r.tool, st \o r.steps, 0, "none")

\* `toolchain install`: install_alias (or install when --alias is empty), then reset
\* with the tuple of the flags
cli_install(list, aliases, files, ts, h, base, alias, t, location, ok, failing) ==
    LET location_enum == ToolchainLocation(location)
        params == _resolve_alias(aliases, alias)
    IN  IF location_enum = "ValueError" THEN caught(files, ts)
        ELSE IF alias # <<>> /\ IsExit(params) THEN CliOut(files, ts, <<>>, 1, "exit")
        ELSE LET out == IF alias # <<>>
                        THEN install(list, files, h, base,
                                     <<params.man, params.pro, params.ops, params.ver>>,
                                     params.loc, ok)
                        ELSE install(list, files, h, base, t, location_enum, ok)
             IN  IF out.exit THEN CliOut(out.fs, ts, out.steps, 1, "exit")
                 ELSE cli_install_reset(list, out.fs, ts, out.steps, h, base, t,
                                        location_enum, failing)

\* `toolchain uninstall`: with --alias the registry's uninstall is called with three
\* arguments instead of seven, which raises TypeError
cli_uninstall(list, files, ts, h, base, alias, t, location) ==
    LET location_enum == ToolchainLocation(location)
        out == uninstall(list, files, h, base, t, location_enum)
    IN  IF location_enum = "ValueError" THEN caught(files, ts)
        ELSE IF alias # <<>> THEN caught(files, ts)
        ELSE IF out.exit THEN CliOut(out.fs, ts, out.steps, 1, "exit")
        ELSE CliOut(out.fs, ts, out.steps, 0, "none")

\* `toolchain reset`
cli_reset(list, files, ts, h, base, t, location, failing) ==
    LET location_enum == ToolchainLocation(location)
    IN  IF location_enum = "ValueError" THEN caught(files, ts)
        ELSE cli_install_reset(list, files, ts, <<>>, h, base, t, location_enum, failing)

\* the alias flag: empty, the ESP32 alias, an alias nothing is registered under
AliasFlags == { <<>> } \cup Aliases

\* the command has ended: the handler returned (exit code 0) or exit(1) was called
FinishCli(out, call) ==
    /\ fs' = out.fs
    /\ config' = out.tool.config
    /\ index' = out.tool.index
    /\ core' = out.tool.core
    /\ libs' = out.tool.libs
    /\ steps' = out.steps
    /\ last' = [error |-> out.error] @@ call
    /\ toolchain_list' = EmptyMap
    /\ toolchain_alias' = EmptyMap
    /\ registered' = {}
    /\ cwd' = StartDir
    /\ result' = IF out.code = 0 THEN "exit0" ELSE "exit1"
    /\ invoked' = <<>>
    /\ UNCHANGED <<host, keyring, monitor_vars, recovery>>

CliInstall(base, alias, t, location) ==
    /\ Running
    /\ registered # {}
    /\ \E ok \in BOOLEAN, failing \in FailingSets :
         LET out == cli_install(toolchain_list, toolchain_alias, fs,
                                Tool(config, index, core, libs), host, base, alias, t,
                                location, ok, failing)
             n == Cardinality(failing) + (IF ok THEN 0 ELSE 1)
         IN  /\ failures + n <= MaxFailures
             /\ ok \/ Range(out.steps) \cap NetworkSteps # {}
             /\ failing \subseteq Range(out.steps)
             /\ failures' = failures + n
             /\ FinishCli(out, [op |-> "cli_install", base |-> base, alias |-> alias,
                                tup |-> t, location |-> location])

CliUninstall(base, alias, t, location) ==
    /\ Running
    /\ registered # {}
    /\ FinishCli(cli_uninstall(toolchain_list, fs, Tool(config, index, core, libs), host,
                               base, alias, t, location),
                 [op |-> "cli_uninstall", base |-> base, alias |-> alias, tup |-> t,
                  location |-> location])
    /\ UNCHANGED failures

CliReset(base, t, location) ==
    /\ Running
    /\ registered # {}
    /\ \E failing \in FailingSets :
         LET out == cli_reset(toolchain_list, fs, Tool(config, index, core, libs), host,
                              base, t, location, failing)
         IN  /\ failures + Cardinality(failing) <= MaxFailures
             /\ failing \subseteq Range(out.steps)
             /\ failures' = failures + Cardinality(failing)
             /\ FinishCli(out, [op |-> "cli_reset", base |-> base, alias |-> <<>>,
                                tup |-> t, location |-> location])

\* `toolchain available`: the registered installers as a table
CliAvailable ==
    /\ Running
    /\ registered # {}
    /\ FinishCli(CliOut(fs, Tool(config, index, core, libs), <<>>, 0, "none"),
                 [op |-> "cli_available", rows |-> { TupleOf(toolchain_list[k]) :
                                                      k \in DOMAIN toolchain_list }])
    /\ UNCHANGED failures

\* the command group: one command per process
NextCli ==
    \/ NewProcess
    \/ \E v \in DefaultVersions : ToolchainInit(v)
    \/ \E b \in Bases, a \in AliasFlags, t \in Tuples, l \in LocationChoices :
          CliInstall(b, a, t, l)
    \/ \E b \in Bases, a \in AliasFlags, t \in Tuples, l \in LocationChoices :
          CliUninstall(b, a, t, l)
    \/ \E b \in Bases, t \in Tuples, l \in LocationChoices : CliReset(b, t, l)
    \/ CliAvailable

SpecCli == Init /\ [][NextCli]_vars

(***************************************************************************)
(* The `auth` command group (cli/auth.py)                                  *)
(***************************************************************************)
\* what the auth commands print
Messages ==
    [ user_not_found |->
          <<"E","R","R","O","R",":"," ","U","s","e","r"," ","n","o","t"," ","f",
            "o","u","n","d">>,
      not_authorized |->
          <<"E","R","R","O","R",":"," ","l","o","g","i","n"," ","n","o","t"," ",
            "a","u","t","h","o","r","i","z","e","d">>,
      error_prefix |->
          <<"E","R","R","O","R",":"," ">>,
      cannot_connect |->
          <<"C","o","u","l","d"," ","n","o","t"," ","c","o","n","n","e","c","t",
            " ","t","o"," ","t","h","e"," ","e","n","d","p","o","i","n","t"," ",
            "U","R","L">>,
      failed_login |->
          <<"F","a","i","l","e","d"," ","t","o"," ","l","o","g","i","n",".">>,
      logged_in_as |->
          <<"L","o","g","g","e","d"," ","i","n"," ","a","s"," ","u","s","e","r",
            ":"," ">>,
      login_cleared |->
          <<"D","o","n","e",":"," ","C","a","c","h","e","d"," ","l","o","g","i",
            "n"," ","c","r","e","d","e","n","t","i","a","l","s"," ","c","l","e",
            "a","r","e","d">>,
      logout_cleared |->
          <<"D","o","n","e",":"," ","A","l","l"," ","c","a","c","h","e","d"," ",
            "l","o","g","i","n"," ","c","r","e","d","e","n","t","i","a","l","s",
            " ","c","l","e","a","r","e","d">>,
      logged_out |->
          <<"S","e","s","s","i","o","n"," ","l","o","g","g","e","d"," ","o","u",
            "t",".">> ]

\* the user of the team, the wrong credentials of the test, the token of a login
Credentials ==
    [ username |->
          <<"i","o","t","u","s","e","r">>,
      bad_username |->
          <<"B","A","D","_","U","S","E","R","_","X","X","X">>,
      password |->
          <<"P","w","1">>,
      bad_password |->
          <<"B","A","D","_","P","A","S","S","W","O","R","D","_","X","X","X">>,
      quoted_password |->
          <<"'","P","w","1","'">>,
      id_token |->
          <<"i","d","t","o","k">> ]

\* the users of the Cognito user pool, with their passwords
UserPool == [ u \in {Credentials.username} |-> Credentials.password ]

RECURSIVE lstrip(_)
\* str.lstrip of blanks
lstrip(t) == IF t # <<>> /\ Head(t) = " " THEN lstrip(Tail(t)) ELSE t

RECURSIVE rstrip(_)
\* str.rstrip of blanks
rstrip(t) ==
    IF t # <<>> /\ t[Len(t)] = " " THEN rstrip(SubSeq(t, 1, Len(t) - 1)) ELSE t

\* unquote: one pair of matching quotes around the string is dropped, then blanks
\* at both ends; <<>> (None) for an empty string
unquote(t) ==
    IF t = <<>> THEN <<>>
    ELSE IF t[1] = t[Len(t)] /\ t[1] \in {"'", "\""}
    THEN lstrip(rstrip(SubSeq(t, 2, Len(t) - 1)))
    ELSE lstrip(rstrip(t))

\* "ERROR" in result.output: some printed line has the five letters in a row
HasError(output) ==
    \E i \in 1..Len(output) : \E j \in 1..(Len(output[i]) - 4) :
        SubSeq(output[i], j, j + 4) = <<"E","R","R","O","R">>

\* cognito.initiate_auth with USER_PASSWORD_AUTH: the ID token, or the exception
\* raised
initiate_auth(username, password, reachable) ==
    IF ~reachable THEN [raised |-> "EndpointConnectionError", id_token |-> <<>>]
    ELSE IF username \notin DOMAIN UserPool
    THEN [raised |-> "UserNotFoundException", id_token |-> <<>>]
    ELSE IF UserPool[username] # password
    THEN [raised |-> "NotAuthorizedException", id_token |-> <<>>]
    ELSE [raised |-> "none", id_token |-> Credentials.id_token]

\* mutant of _generate_token: the two Cognito exceptions are swallowed without a
\* message
_generate_token_silent(username, password, reachable) ==
    LET resp == initiate_auth(username, password, reachable)
    IN  IF resp.raised \in {"UserNotFoundException", "NotAuthorizedException"}
        THEN [id_token |-> <<>>, output |-> <<>>]
        ELSE IF resp.raised # "none"
        THEN [id_token |-> <<>>, output |-> <<Messages.error_prefix \o Messages.cannot_connect>>]
        ELSE [id_token |-> resp.id_token, output |-> <<>>]

\* _generate_token: the ID token (<<>> for None) and what was printed
_generate_token(username, password, reachable) ==
    LET resp == initiate_auth(username, password, reachable)
    IN  IF resp.raised = "UserNotFoundException"
        THEN [id_token |-> <<>>, output |-> <<Messages.user_not_found>>]
        ELSE IF resp.raised = "NotAuthorizedException"
        THEN [id_token |-> <<>>, output |-> <<Messages.not_authorized>>]
        ELSE IF resp.raised # "none"
        THEN [id_token |-> <<>>, output |-> <<Messages.error_prefix \o Messages.cannot_connect>>]
        ELSE [id_token |-> resp.id_token, output |-> <<>>]

\* clear_all_auth: every stored credential is removed
clear_all_auth(kr) == EmptyKeyring

\* clear_api_token: the stored API token is removed
clear_api_token(kr) == [kr EXCEPT !.token = <<>>]

\* what an auth command leaves behind: the keyring, the output, the exit code
AuthOut(kr, output, code) == [keyring |-> kr, output |-> output, code |-> code]

\* `auth login` for a team that logs in with username and password
login(kr, username, password, clear, reachable) ==
    LET stored_username == kr.username
        stored_password == kr.password
        user == IF username = <<>> THEN stored_username ELSE username
        pass == unquote(IF password = <<>> THEN stored_password ELSE password)
        tok == _generate_token(user, pass, reachable)
        kr1 == [kr EXCEPT !.token = tok.id_token]
        kr2 == IF user # stored_username THEN [kr1 EXCEPT !.username = user] ELSE kr1
        kr3 == IF pass # stored_password THEN [kr2 EXCEPT !.password = pass] ELSE kr2
    IN  IF clear THEN AuthOut(clear_all_auth(kr), <<Messages.login_cleared>>, 0)
        ELSE IF tok.id_token # <<>>
        THEN AuthOut(kr3, tok.output \o <<Messages.logged_in_as \o user \o <<".">> >>, 0)
        ELSE AuthOut(kr, tok.output \o <<Messages.failed_login>>, 0)

\* `auth logout`
logout(kr, clear) ==
    IF clear THEN AuthOut(clear_all_auth(kr), <<Messages.logout_cleared>>, 0)
    ELSE AuthOut(clear_api_token(kr), <<Messages.logged_out>>, 0)

\* runner.invoke of an auth command: the commands of one test follow each other
CanInvoke == result \in {"none", "exit0"} /\ last.op \in {"none", "auth_login", "auth_logout"}

FinishAuth(out, call) ==
    /\ keyring' = out.keyring
    /\ last' = [output |-> out.output] @@ call
    /\ result' = IF out.code = 0 THEN "exit0" ELSE "exit1"
    /\ UNCHANGED <<host, toolchain_list, toolchain_alias, fs, config, index, core, libs,
                   cwd, steps, invoked, failures, registered, recovery, monitor_vars>>

\* the credentials login goes to Cognito with
UsedUsername(username) == IF username = <<>> THEN keyring.username ELSE username

UsedPassword(password) == unquote(IF password = <<>> THEN keyring.password ELSE password)

AuthLogin(username, password, clear, reachable) ==
    /\ CanInvoke
    /\ clear \/ (UsedUsername(username) # <<>> /\ UsedPassword(password) # <<>>)
    /\ FinishAuth(login(keyring, username, password, clear, reachable),
                  [op |-> "auth_login", clear |-> clear, reachable |-> reachable,
                   username |-> UsedUsername(username),
                   password |-> UsedPassword(password)])

AuthLogout(clear) ==
    /\ CanInvoke
    /\ FinishAuth(logout(keyring, clear),
                  [op |-> "auth_logout", clear |-> clear,
                   after |-> IF last.op = "auth_login" /\ ~last.clear
                             THEN <<last.username, last.password>> ELSE <<>>])

\* the auth commands, and the end of the process that ran them
NextAuth ==
    \/ NewProcess
    \/ \E u \in {<<>>, Credentials.username, Credentials.bad_username},
          p \in {<<>>, Credentials.password, Credentials.bad_password,
                 Credentials.quoted_password},
          c \in BOOLEAN, r \in BOOLEAN :
          AuthLogin(u, p, c, r)
    \/ \E c \in BOOLEAN : AuthLogout(c)

SpecAuth == Init /\ [][NextAuth]_vars

(***************************************************************************)
(* `device monitor` (cli/device.py) and the MQTT subscription                *)
(* (common/utils.py): the main thread and the thread the MQTT client calls  *)
(* _mqtt_callback on                                                       *)
(***************************************************************************)
\* device.on_data_callback: the value it returns; False tells the caller to stop
on_data_callback(stop) == ~stop

\* utils._mqtt_callback: where the callback thread goes next. A payload that is
\* no JSON object raises inside the try block, and on_error_callback prints it
_mqtt_callback(wellformed, stop) ==
    IF wellformed /\ ~on_data_callback(stop) THEN "kill" ELSE "idle"

\* the exit code of the command when SIGINT is delivered to the main thread:
\* _control_c_handler calls sys.exit(0); under the default handler the
\* KeyboardInterrupt passes `except Exception` and click aborts with code 1
sigint_exit_code(handler) == IF handler = "_control_c_handler" THEN 0 ELSE 1

\* the monitor process has ended with this exit code
MonitorEnded(code, cause) ==
    /\ main_pc' = "ended"
    /\ callback_pc' = "idle"
    /\ sigint_pending' = "none"
    /\ result' = IF code = 0 THEN "exit0" ELSE "exit1"
    /\ last' = [last EXCEPT !.code = code, !.cause = cause]
    /\ UNCHANGED <<sigint_handler, stop_after_one, received, loop_count>>

\* monitor, up to the return of subscribe_to_mqtt_topic: the options are stored in
\* the globals of utils, the client connects and subscribes. A failure to connect
\* raises, the handler prints "ERROR: ..." and the command ends with exit code 0
MonitorStart(raw, stop, connected) ==
    /\ result = "none"
    /\ main_pc = "none"
    /\ stop_after_one' = stop
    /\ IF connected
       THEN /\ main_pc' = "subscribed"
            /\ last' = [op |-> "monitor", raw |-> raw, stop |-> stop, code |-> -1,
                        cause |-> "none"]
            /\ UNCHANGED result
       ELSE /\ main_pc' = "ended"
            /\ last' = [op |-> "monitor", raw |-> raw, stop |-> stop, code |-> 0,
                        cause |-> "exception"]
            /\ result' = "exit0"
    /\ UNCHANGED <<sigint_handler, sigint_pending, callback_pc, received, loop_count>>
    /\ UNCHANGED <<host, keyring, toolchain_list, toolchain_alias, fs, config, index,
                   core, libs, cwd, steps, invoked, failures, registered, recovery>>

\* signal.signal(signal.SIGINT, _control_c_handler), after the two prints
MonitorInstallHandler ==
    /\ main_pc = "subscribed"
    /\ main_pc' = "loop"
    /\ sigint_handler' = "_control_c_handler"
    /\ UNCHANGED <<sigint_pending, callback_pc, stop_after_one, received, loop_count>>
    /\ UNCHANGED <<host, keyring, toolchain_list, toolchain_alias, fs, config, index,
                   core, libs, cwd, steps, invoked, failures, registered, recovery,
                   result, last>>

\* one round of `while True`: loop_count += 1; time.sleep(1)
MonitorSleep ==
    /\ main_pc = "loop"
    /\ loop_count < MaxLoops
    /\ loop_count' = loop_count + 1
    /\ UNCHANGED <<main_pc, sigint_handler, sigint_pending, callback_pc, stop_after_one,
                   received>>
    /\ UNCHANGED <<host, keyring, toolchain_list, toolchain_alias, fs, config, index,
                   core, libs, cwd, steps, invoked, failures, registered, recovery,
                   result, last>>

\* the MQTT client calls _mqtt_callback with a message of the subscribed topic
MessageArrives(wellformed) ==
    /\ main_pc \in {"subscribed", "loop"}
    /\ callback_pc = "idle"
    /\ received < MaxMessages
    /\ received' = received + 1
    /\ callback_pc' = _mqtt_callback(wellformed, stop_after_one)
    /\ UNCHANGED <<main_pc, sigint_handler, sigint_pending, stop_after_one, loop_count>>
    /\ UNCHANGED <<host, keyring, toolchain_list, toolchain_alias, fs, config, index,
                   core, libs, cwd, steps, invoked, failures, registered, recovery,
                   result, last>>

\* os.kill(os.getpid(), signal.SIGINT) in the callback thread: on Windows os.kill
\* with a signal other than CTRL_C_EVENT / CTRL_BREAK_EVENT ends the process through
\* TerminateProcess with the signal number (2) as its exit code; elsewhere the
\* signal is raised and waits for the main thread
CallbackKill ==
    /\ main_pc \in {"subscribed", "loop"}
    /\ callback_pc = "kill"
    /\ IF host = "Windows"
       THEN MonitorEnded(2, "callback")
       ELSE /\ sigint_pending' = IF sigint_pending = "none" THEN "callback"
                                 ELSE sigint_pending
            /\ callback_pc' = "idle"
            /\ UNCHANGED <<main_pc, sigint_handler, stop_after_one, received, loop_count,
                           result, last>>
    /\ UNCHANGED <<host, keyring, toolchain_list, toolchain_alias, fs, config, index,
                   core, libs, cwd, steps, invoked, failures, registered, recovery>>

\* the operator presses Control-C
UserInterrupt ==
    /\ main_pc \in {"subscribed", "loop"}
    /\ sigint_pending = "none"
    /\ sigint_pending' = "user"
    /\ UNCHANGED <<main_pc, sigint_handler, callback_pc, stop_after_one, received,
                   loop_count>>
    /\ UNCHANGED <<host, keyring, toolchain_list, toolchain_alias, fs, config, index,
                   core, libs, cwd, steps, invoked, failures, registered, recovery,
                   result, last>>

\* the main thread runs the handler in place for the raised SIGINT
DeliverSigint ==
    /\ main_pc \in {"subscribed", "loop"}
    /\ sigint_pending # "none"
    /\ MonitorEnded(sigint_exit_code(sigint_handler), sigint_pending)
    /\ UNCHANGED <<host, keyring, toolchain_list, toolchain_alias, fs, config, index,
                   core, libs, cwd, steps, invoked, failures, registered, recovery>>

\* one run of `device monitor`
NextMonitor ==
    \/ \E raw \in BOOLEAN, stop \in BOOLEAN, connected \in BOOLEAN :
          MonitorStart(raw, stop, connected)
    \/ MonitorInstallHandler
    \/ MonitorSleep
    \/ \E wellformed \in BOOLEAN : MessageArrives(wellformed)
    \/ CallbackKill
    \/ UserInterrupt
    \/ DeliverSigint

SpecMonitor == Init /\ [][NextMonitor]_vars

\* the registry with a second toolchain registered, and installs by alias
NextRegistry ==
    \/ NewProcess
    \/ \E v \in { LatestVersion, OlderVersion } : ToolchainInit(v)
    \/ RegisterOther
    \/ \E b \in Bases, a \in Aliases : InstallAlias(b, a)

SpecRegistry == Init /\ [][NextRegistry]_vars

\* the program as shipped: the registry holds the ESP32/Arduino installer
Next ==
    \/ NewProcess
    \/ \E v \in DefaultVersions : ToolchainInit(v)
    \/ \E b \in Bases, t \in Tuples, l \in Locations : Install(b, t, l)
    \/ \E b \in Bases, a \in Aliases : InstallAlias(b, a)
    \/ \E b \in Bases, t \in Tuples, l \in Locations : Uninstall(b, t, l)
    \/ \E b \in Bases, t \in Tuples, l \in Locations : Reset(b, t, l)

Spec == Init /\ [][Next]_vars

\* the program as shipped, installing and building
NextBuild ==
    \/ NewProcess
    \/ \E v \in DefaultVersions : ToolchainInit(v)
    \/ \E b \in Bases, t \in Tuples, l \in Locations : Install(b, t, l)
    \/ \E b \in Bases, t \in Tuples, d \in Dirpaths, c \in Commands : Build(b, t, d, c)
    \/ \E b \in Bases, t \in Tuples, d \in Dirpaths, c \in Commands : Flash(b, t, d, c)
    \/ \E b \in Bases, t \in Tuples, d \in Dirpaths, c \in Commands :
          BuildAndFlash(b, t, d, c)

SpecBuild == Init /\ [][NextBuild]_vars

(***************************************************************************)
(* Properties                                                              *)
(***************************************************************************)
\* the per-tool directory of tuple t under base: expanduser(base)/key(t)
ToolDir(base, t) == PathJoin(expanduser(base), KeyOf(t))

IsRegistered(t) == KeyOf(t) \in DOMAIN toolchain_list

\* C1: after uninstall is called for a registered tuple, the per-tool directory
\* base/key does not exist on disk, on every host and whatever the platform
\* routine did (removed something, failed, or raised)
C1_UninstallLeavesNoDirectory ==
    [][(last'.op = "uninstall" /\ IsRegistered(last'.tup))
         => ~exists(fs', ToolDir(last'.base, last'.tup))]_vars

\* C2: install for a tuple that is not registered ends the process with exit
\* code 1 and creates nothing on disk
C2_InstallUnregisteredExits ==
    [][(last'.op = "install" /\ ~IsRegistered(last'.tup))
         => (result' = "exit1" /\ fs' = fs)]_vars

\* C2 witness: an install of the never-registered tuple has exited, the disk empty
C2_Witness ==
    /\ result = "exit1"
    /\ last.op = "install"
    /\ last.tup = TupleOf(ToolchainIMX7)
    /\ fs = {}

\* C3: the key is deterministic and injective over the registered tuples: every
\* registered tuple is found under the key the registry derives from it, still
\* with its own installer, and two distinct registered tuples have distinct keys
C3_KeyInjectiveOverRegistered ==
    /\ \A t \in registered :
         /\ KeyOf(t) \in DOMAIN toolchain_list
         /\ TupleOf(toolchain_list[KeyOf(t)]) = t
         /\ toolchain_list[KeyOf(t)].key = KeyOf(t)
    /\ \A t1, t2 \in registered : t1 # t2 => KeyOf(t1) # KeyOf(t2)

\* C3 witness: three distinct tuples are registered side by side
C3_Witness ==
    /\ Cardinality(registered) = 3
    /\ Cardinality(DOMAIN toolchain_list) = 3

\* C4: a registration under alias A with tuple T makes _resolve_alias(A) yield
\* exactly T, and leaves what every other alias resolves to as it was
C4_ResolveAliasInvertsRegister ==
    [][last'.op = "register" =>
         /\ LET d == _resolve_alias(toolchain_alias', last'.alias)
            IN  /\ ~IsExit(d)
                /\ <<d.man, d.pro, d.ops, d.ver>> = last'.tup
         /\ \A a \in DOMAIN toolchain_alias :
              a # last'.alias =>
                /\ a \in DOMAIN toolchain_alias'
                /\ toolchain_alias'[a] = toolchain_alias[a]]_vars

\* C4 witness: the ESP32 alias still resolves to its tuple after the other alias
\* was registered last
C4_Witness ==
    /\ last.op = "register"
    /\ last.alias = S_imx7frloc
    /\ S_esp32arloc \in DOMAIN toolchain_alias
    /\ toolchain_alias[S_esp32arloc].ver = OlderVersion
    /\ toolchain_alias[S_esp32arloc].pro = S_esp32

\* the executable of tuple t under base, as install places it
ToolExe(base, t) == exec_path(toolchain_list[KeyOf(t)], ToolDir(base, t))

\* the state install, uninstall and reset act on
ToolState == <<config, index, core, libs, fs>>

EndsWith(s, suffix) ==
    Len(suffix) <= Len(s) /\ SubSeq(s, Len(s) - Len(suffix) + 1, Len(s)) = suffix

\* C7: on the install-script path (hosts other than Windows) an install that finds
\* the executable at the target path exits, runs no script and leaves the disk
\* untouched; an executable goes away only through uninstall, so a later install
\* is accepted only after an uninstall
C7_PosixInstallRefuses ==
    [][host # "Windows" =>
         /\ (/\ last'.op = "install"
             /\ IsRegistered(last'.tup)
             /\ exists(fs, ToolExe(last'.base, last'.tup)))
              => (result' = "exit1" /\ steps' = <<>> /\ fs' = fs)
         /\ \A p \in fs :
              (EndsWith(p, <<"/">> \o S_arduino_cli) /\ p \notin fs')
                => last'.op = "uninstall"]_vars

\* C7 witness: on Darwin an install has been refused with the executable in place
C7_Witness ==
    /\ host = "Darwin"
    /\ last.op = "install"
    /\ last.loc = "LOCAL"
    /\ result = "exit1"
    /\ steps = <<>>
    /\ exists(fs, PathJoin(ToolDir(last.base, last.tup), S_arduino_cli))

\* C8: build, flash and build_and_flash launch exactly
\* exec_path(install_path(base)) + " " + command
C8_CommandUsesInstalledExecutable ==
    (last.op \in {"build", "flash", "build_and_flash"} /\ result = "true")
      => /\ Len(invoked) = 1
         /\ invoked[1].cmd =
              ToolExe(last.base, last.tup) \o <<" ">> \o last.command

\* C9: build, flash and build_and_flash set the working directory to the source
\* directory they were given before the command is invoked: the process is in that
\* directory when they return, and every command they launched ran in it
C9_CommandRunsInSourceDir ==
    (last.op \in {"build", "flash", "build_and_flash"} /\ result = "true")
      => /\ cwd = last.dirpath
         /\ \A i \in 1..Len(invoked) : invoked[i].cwd = last.dirpath

\* hexlify("espressif::esp32::arduino::3.3.0")
Key_espressif_esp32_arduino_330 ==
    <<"6","5","7","3","7","0","7","2","6","5","7","3","7","3","6","9",
       "6","6","3","a","3","a","6","5","7","3","7","0","3","3","3","2",
       "3","a","3","a","6","1","7","2","6","4","7","5","6","9","6","e",
       "6","f","3","a","3","a","3","3","2","e","3","3","2","e","3","0">>

\* C10: install_alias for a registered alias that resolves to tuple T leaves the
\* directory expanduser(base)/key(T) on disk, and creates nothing outside it
C10_InstallAliasDirectory ==
    [][(last'.op = "install_alias" /\ last'.alias \in DOMAIN toolchain_alias)
         => LET d == toolchain_alias[last'.alias]
                dir == ToolDir(last'.base, <<d.man, d.pro, d.ops, d.ver>>)
            IN  /\ exists(fs', dir)
                /\ \A p \in fs' \ fs : p = dir \/ IsPrefix(dir \o <<"/">>, p)]_vars

\* C10 witness: install_alias("/tmp/tc", "esp32arloc") with version 3.3.0
\* registered has left /tmp/tc/<hex of "espressif::esp32::arduino::3.3.0">
C10_Witness ==
    /\ last.op = "install_alias"
    /\ last.alias = S_esp32arloc
    /\ last.base = TmpBase
    /\ result = "ok"
    /\ S_esp32arloc \in DOMAIN toolchain_alias
    /\ toolchain_alias[S_esp32arloc].ver = LatestVersion
    /\ exists(fs, TmpBase \o <<"/">> \o Key_espressif_esp32_arduino_330)

\* C19: build and build_and_flash of the registry return exactly what the
\* installer returns, and the installer's build, flash and build_and_flash return
\* true whenever they return, whatever the exit status of the external tool
C19_BuildReturnsTrue ==
    [][(last'.op \in {"build", "flash", "build_and_flash"} /\ result' # "exit1")
         => LET inst == toolchain_list[KeyOf(last'.tup)]
            IN  /\ result' = "true"
                /\ last'.op = "build" =>
                     result' = Returned(installer_build(inst, fs, cwd, last'.base,
                                   last'.dirpath, last'.command, last'.status).ret)
                /\ last'.op = "build_and_flash" =>
                     result' = Returned(installer_build_and_flash(inst, fs, cwd,
                                   last'.base, last'.dirpath, last'.command,
                                   last'.status).ret)]_vars

\* C19 witness: build_and_flash has returned true although the command it launched
\* ended with status 1
C19_Witness ==
    /\ last.op = "build_and_flash"
    /\ result = "true"
    /\ Len(invoked) = 1
    /\ invoked[1].status = 1

\* C11: install_alias with an alias that is not registered ends the process with
\* exit code 1 without reaching install: no platform method is called, no external
\* step is issued and the disk is as it was
C11_UnknownAliasExits ==
    [][(last'.op = "install_alias" /\ last'.alias \notin DOMAIN toolchain_alias)
         => /\ IsExit(_resolve_alias(toolchain_alias, last'.alias))
            /\ result' = "exit1"
            /\ last'.method = "none"
            /\ steps' = <<>>
            /\ fs' = fs]_vars

\* C11 witness: install_alias with the alias no installer carries has exited, the
\* tool directory of an earlier install still on disk
C11_Witness ==
    /\ last.op = "install_alias"
    /\ last.alias = S_imx7frloc
    /\ result = "exit1"
    /\ last.method = "none"
    /\ fs # {}

\* the platform method the host OS stands for
ExpectedMethod(op, h) ==
    IF h = "Darwin" THEN op \o "_mac"
    ELSE IF h = "Windows" THEN op \o "_windows"
    ELSE IF h = "Linux" THEN op \o "_unix"
    ELSE "unsupported"

\* C12: install, uninstall and reset for a registered tool call exactly one
\* platform method, the one of the detected host OS (Darwin: *_mac, Windows:
\* *_windows, Linux: *_unix), whatever the target os field of the tuple is
C12_DispatchOnHostOnly ==
    [][(last'.op \in {"install", "uninstall", "reset"} /\ IsRegistered(last'.tup))
         => last'.method = ExpectedMethod(last'.op, host)]_vars

\* C12 witness: on Windows an uninstall for the registered tuple, whose os field is
\* "arduino", has gone to uninstall_windows and returned
C12_Witness ==
    /\ host = "Windows"
    /\ last.op = "uninstall"
    /\ last.tup[3] = S_arduino
    /\ last.method = "uninstall_windows"
    /\ result = "ok"

C14_ResetWithoutExecutableExits ==
    [][(/\ last'.op = "reset"
        /\ host \in SupportedHosts
        /\ IF IsRegistered(last'.tup)
           THEN ~exists(fs, ToolExe(last'.base, last'.tup))
           ELSE TRUE)
         => (result' = "exit1" /\ steps' = <<>>)]_vars

\* C15: an install in which a download or install command failed ends the process
\* with exit code 1
C15_InstallFailureFatal ==
    [][(last'.op \in {"install", "install_alias"} /\ failures' > failures)
         => result' = "exit1"]_vars

\* C17: every alias in toolchain_alias resolves to a tuple whose key is in
\* toolchain_list
C17_AliasResolvesToRegisteredKey ==
    \A a \in DOMAIN toolchain_alias :
        LET d == _resolve_alias(toolchain_alias, a)
        IN  KeyOf(<<d.man, d.pro, d.ops, d.ver>>) \in DOMAIN toolchain_list

\* C17 witness: the ESP32 alias was registered a second time with another version,
\* so two keys share it, next to the alias of the other toolchain
C17_Witness ==
    /\ Cardinality(DOMAIN toolchain_alias) = 2
    /\ KeyOf(<<S_espressif, S_esp32, S_arduino, LatestVersion>>) \in DOMAIN toolchain_list
    /\ KeyOf(<<S_espressif, S_esp32, S_arduino, OlderVersion>>) \in DOMAIN toolchain_list
    /\ toolchain_alias[S_esp32arloc].ver = LatestVersion

\* C18: after an install or reset that returned with a failed step, the operator's
\* recovery is accepted: the uninstall for the same base, tuple and location, run
\* where the registry has been constructed, returns, and so does the install that
\* follows it
C18_RecoveryAccepted ==
    [][(/\ registered # {}
        /\ \/ last'.op = "uninstall" /\ recovery'.stage = "uninstalled"
           \/ last'.op = "install" /\ recovery'.stage = "retried")
         => result' = "ok"]_vars

ValidCredentials(username, password) ==
    username \in DOMAIN UserPool /\ UserPool[username] = password

C21_ResetStepsOnceInOrder ==
    [][(/\ last'.op = "reset"
        /\ last'.loc = "LOCAL"
        /\ IsRegistered(last'.tup)
        /\ exists(fs, ToolExe(last'.base, last'.tup)))
         => /\ steps' \in { ConfigureSteps, <<"config_init">> \o ConfigureSteps }
            /\ ~config.exists => Head(steps') = "config_init"
            /\ \A i, j \in 1..Len(steps') : steps'[i] = steps'[j] => i = j]_vars

\* C21 witness: a reset has returned after issuing "config init" and every
\* configuration step, with the core install failed (the index is fresh, the core
\* is not in) and every library after it installed
C21_Witness ==
    /\ last.op = "reset"
    /\ result = "ok"
    /\ steps = <<"config_init">> \o ConfigureSteps
    /\ index
    /\ ~core
    /\ libs = Range(LibsByName) \cup Range(LibsByGitUrl)

\* C22: on a Linux host an install of a registered LOCAL tool with no executable
\* at the target path runs the install script once and returns without exit(1)
C22_LinuxInstallRunsScript ==
    [][(/\ host = "Linux"
        /\ last'.op = "install"
        /\ last'.loc = "LOCAL"
        /\ IsRegistered(last'.tup)
        /\ ~exists(fs, ToolExe(last'.base, last'.tup)))
         => (steps' = <<"install_script">> /\ result' = "ok")]_vars

\* C23: install, uninstall and reset called with a location other than LOCAL end
\* the process with a non-zero exit code and issue no external command: nothing
\* is downloaded, nothing is removed from the disk, no configuration step runs
C23_NonLocalExits ==
    [][(last'.op \in {"install", "uninstall", "reset"} /\ last'.loc # "LOCAL")
         => /\ result' = "exit1"
            /\ steps' = <<>>
            /\ fs \subseteq fs'
            /\ \A p \in fs' \ fs : ~EndsWith(p, S_arduino_cli) /\ ~EndsWith(p, S_arduino_cli_exe)
            /\ <<config, index, core, libs>>' = <<config, index, core, libs>>]_vars

\* C23 witness: on Darwin an uninstall with location CONTAINER went to
\* uninstall_mac and ended in exit(1) with the installed executable still on disk
C23_Witness ==
    /\ host = "Darwin"
    /\ last.op = "uninstall"
    /\ last.method = "uninstall_mac"
    /\ last.loc = "CONTAINER"
    /\ result = "exit1"
    /\ steps = <<>>
    /\ \E p \in fs : EndsWith(p, <<"/">> \o S_arduino_cli)

\* C24: an uninstall of a registered LOCAL tool whose executable is missing at the
\* install target path ends the process with a non-zero exit code and removes
\* nothing
C24_UninstallWithoutExecutableExits ==
    [][(/\ last'.op = "uninstall"
        /\ last'.loc = "LOCAL"
        /\ IsRegistered(last'.tup)
        /\ ~exists(fs, ToolExe(last'.base, last'.tup)))
         => result' = "exit1"]_vars

\* C25: the device monitor, once subscribed, ends only on an interrupt signal;
\* without --stop the callback never raises one; with --stop the interrupt the
\* callback raises ends the process with exit code 0, wherever the main thread
\* is when the message arrives (before or after it has installed its handler)
C25_MonitorEndsOnInterruptWithZero ==
    [][/\ (main_pc \in {"subscribed", "loop"} /\ main_pc' = "ended")
            => /\ last'.cause \in {"user", "callback"}
               /\ last'.cause = "callback" => (last.stop /\ result' = "exit0")
       /\ (received' > received /\ ~stop_after_one) => callback_pc' = "idle"]_vars

\* C26: in every process the registry constructed with the default version holds
\* the ESP32/Arduino installer under the key of that version, whatever is on the
\* disk, so that the tuple install was called with is found by a later process
C26_KeyIndependentOfDisk ==
    (S_esp32arloc \in DOMAIN toolchain_alias)
      => \A v \in DefaultVersions : IsRegistered(<<S_espressif, S_esp32, S_arduino, v>>)

\* C27: constructing the registry again in the same process, with the default
\* version and the disk as they were at the construction before (the installer
\* comes out with the tuple its alias stands for already), leaves toolchain_list
\* and toolchain_alias with the same keys, the same aliases and the same tuples
C27_ReRegistrationIdempotent ==
    [][(last'.op = "register" /\ last'.again /\ last'.alias = S_esp32arloc)
         => /\ DOMAIN toolchain_list' = DOMAIN toolchain_list
            /\ \A k \in DOMAIN toolchain_list :
                 TupleOf(toolchain_list'[k]) = TupleOf(toolchain_list[k])
            /\ toolchain_alias' = toolchain_alias
            /\ registered' = registered]_vars

\* C27 witness: the ESP32/Arduino installer has been registered again while a
\* second toolchain is in the registry, and both are still there
C27_Witness ==
    /\ last.op = "register"
    /\ last.again
    /\ last.alias = S_esp32arloc
    /\ Cardinality(DOMAIN toolchain_list) = 2
    /\ DOMAIN toolchain_alias = Aliases

C29_DirectoryCreatedOnlyByInstall ==
    [][\A b \in Bases, t \in Tuples :
         (~exists(fs, ToolDir(b, t)) /\ exists(fs', ToolDir(b, t)))
           => last'.op \in {"install", "install_alias"}]_vars

\* C30: when the installer's build or flash has returned true, the external command
\* was launched exactly once
C30_TrueMeansLaunchedOnce ==
    (last.op \in {"build", "flash"} /\ result = "true") => Len(invoked) = 1

====
